---- MODULE Spec2Model ----
(***************************************************************************)
(* State-machine model of the EnergyMaintenanceFHE contract                *)
(* (src/unnamed/part_000): role/pause/cooldown gates, the batch ledger     *)
(* with its homomorphic accumulators, and the asynchronous decryption      *)
(* bridge (requestBatchDecryption / myCallback).                           *)
(*                                                                         *)
(* Every external function is one atomic action (the EVM serialises        *)
(* transactions and a revert rolls the storage back).  A call that reverts *)
(* leaves the storage unchanged and only records its error in lastCall.    *)
(***************************************************************************)
EXTENDS Integers, Sequences, FiniteSets, TLC

(***************************************************************************)
(* Bounds of the model.                                                    *)
(***************************************************************************)
MaxBatches == 2      \* openBatch is explored up to this currentBatchId
MaxSubmits == 2      \* successful submitData calls explored per batch
MaxRequests == 2     \* decryption requests the oracle hands out
MaxTime == 160       \* block.timestamp is explored up to this value
StartTime == 100     \* block.timestamp of the deployment block
MaxSteps == 7        \* transactions and clock advances explored per behaviour

(***************************************************************************)
(* Fixed-width unsigned integers.  A uintN is a big-endian sequence of     *)
(* 16-bit limbs (uint256: 16 limbs, uint32: 2 limbs), so that the width of *)
(* the source types is kept exactly.                                       *)
(***************************************************************************)
LimbBase == 65536
MaxLimb == 65535
Limbs256 == 16
Limbs32 == 2

\* the n-limb number whose value is the small natural v (v < LimbBase)
UintOf(n, v) == [i \in 1..n |-> IF i = n THEN v ELSE 0]
U256(v) == UintOf(Limbs256, v)
U32(v) == UintOf(Limbs32, v)
MAX_UINT256 == [i \in 1..Limbs256 |-> MaxLimb]
MAX_UINT32 == [i \in 1..Limbs32 |-> MaxLimb]

\* carry out of limb position i when adding a and b (equal lengths): the
\* limbs at i carry by themselves, or they sum to MaxLimb and the carry
\* from the lower limbs propagates
RECURSIVE CarryFrom(_, _, _)
CarryFrom(a, b, i) ==
    IF i > Len(a) THEN 0
    ELSE IF a[i] + b[i] > MaxLimb THEN 1
    ELSE IF a[i] + b[i] < MaxLimb THEN 0
    ELSE CarryFrom(a, b, i + 1)

\* a + b stopping at the greatest value instead of wrapping
WrapAdd_Saturating(a, b) ==
    [i \in 1..Len(a) |->
        IF CarryFrom(a, b, 1) = 1 THEN MaxLimb
        ELSE (a[i] + b[i] + CarryFrom(a, b, i + 1)) % LimbBase]

\* a + b reduced modulo LimbBase^Len(a)
WrapAdd(a, b) ==
    [i \in 1..Len(a) |-> (a[i] + b[i] + CarryFrom(a, b, i + 1)) % LimbBase]

\* TRUE iff a + b does not fit in Len(a) limbs
AddOverflows(a, b) == CarryFrom(a, b, 1) = 1

\* a < b, comparing from the most significant limb
RECURSIVE LtFrom(_, _, _)
LtFrom(a, b, i) ==
    IF i > Len(a) THEN FALSE
    ELSE IF a[i] # b[i] THEN a[i] < b[i]
    ELSE LtFrom(a, b, i + 1)

Lt(a, b) == LtFrom(a, b, 1)
Ge(a, b) == ~Lt(a, b)

(***************************************************************************)
(* The FHE engine (library @fhevm/solidity, imported at part_000:3).       *)
(* A handle is the identifier of a ciphertext; the engine derives the      *)
(* handle of a result from the operation and the operand handles, so a     *)
(* handle is modelled by the expression that produced it.  Decrypt is the  *)
(* cleartext the engine's key holders obtain for a handle; the contract    *)
(* never evaluates it.                                                     *)
(***************************************************************************)
\* bytes32(0): the value of an euint32 storage slot never written
NullHandle == [op |-> "null", args |-> <<>>, val |-> U32(0)]

\* FHE.asEuint32(v): trivial encryption of a cleartext constant
asEuint32(v) == [op |-> "trivialEncrypt", args |-> <<>>, val |-> v]

\* an euint32 a caller passes in, encrypting v
InputHandle(v) == [op |-> "input", args |-> <<>>, val |-> v]

\* FHE.add(a, b)
FHEadd(a, b) == [op |-> "fheAdd", args |-> <<a, b>>, val |-> U32(0)]

\* FHE.ge(a, b)
FHEge(a, b) == [op |-> "fheGe", args |-> <<a, b>>, val |-> U32(0)]

\* FHE.select(control, ifTrue, ifFalse)
FHEselect(control, a, b) ==
    [op |-> "fheIfThenElse", args |-> <<control, a, b>>, val |-> U32(0)]

\* FHE.toBytes32(h): the handle as a bytes32 word
toBytes32(h) == [bytes32 |-> h]

\* The cleartext behind a handle.  Arithmetic is on 32 bits and wraps; a
\* comparison yields 1 or 0; the control operand of a selection is true
\* iff its cleartext is not zero.
RECURSIVE Decrypt(_)
Decrypt(h) ==
    CASE h.op = "fheAdd" ->
            WrapAdd(Decrypt(h.args[1]), Decrypt(h.args[2]))
      [] h.op = "fheGe" ->
            IF Ge(Decrypt(h.args[1]), Decrypt(h.args[2])) THEN U32(1) ELSE U32(0)
      [] h.op = "fheIfThenElse" ->
            IF Decrypt(h.args[1]) # U32(0)
            THEN Decrypt(h.args[2])
            ELSE Decrypt(h.args[3])
      [] OTHER -> h.val

(***************************************************************************)
(* ABI coding of the callback's cleartexts: abi.encode(uint32, uint32) is  *)
(* two 32-byte words, each holding the value right-aligned.                *)
(***************************************************************************)
\* one 32-byte word holding the uint32 v
AbiWord(v) == [i \in 1..Limbs256 |-> IF i > Limbs256 - Limbs32
                                     THEN v[i - (Limbs256 - Limbs32)] ELSE 0]

AbiEncode(total, max) == <<AbiWord(total), AbiWord(max)>>

\* the uint32 in the low limbs of a word
AbiLow32(w) == [i \in 1..Limbs32 |-> w[i + (Limbs256 - Limbs32)]]

\* abi.decode(cleartexts, (uint32, uint32)) reverts unless there are two
\* words whose upper 224 bits are zero
AbiDecodable(bytes) ==
    /\ Len(bytes) = 2
    /\ \A k \in 1..2 : \A i \in 1..(Limbs256 - Limbs32) : bytes[k][i] = 0

AbiDecode(bytes) == <<AbiLow32(bytes[1]), AbiLow32(bytes[2])>>

(***************************************************************************)
(* Domains.                                                                *)
(***************************************************************************)
Addresses == {"a1", "a2"}
Deployer == "a1"
ThisAddress == "EnergyMaintenanceFHE"

BatchIds == 0..MaxBatches        \* keys of `batches` the model can touch
RequestIds == 0..MaxRequests     \* keys of `decryptionContexts`; 0 is never issued

\* the sensor readings a provider may submit (cleartexts of the two inputs)
Readings ==
    { [vibration |-> U32(1), temperature |-> U32(7)],
      [vibration |-> MAX_UINT32, temperature |-> U32(3)] }

\* values the owner passes to setCooldownSeconds
CooldownInputs == {U256(0), MAX_UINT256}

\* seconds by which block.timestamp advances between two transactions
TickDeltas == {30, 60}

\* error names; "" is success, "Panic" is the compiler-inserted
\* arithmetic-overflow revert Panic(0x11)
NoError == ""

NoEvent == [name |-> "", args |-> <<>>]
Event(name, args) == [name |-> name, args |-> args]

\* default value of a mapping entry never written
EmptyBatch ==
    [id |-> 0, open |-> FALSE, dataCount |-> 0,
     encryptedTotalVibration |-> NullHandle,
     encryptedMaxTemperature |-> NullHandle]

ZeroHash == [cts |-> <<>>, this |-> ""]

EmptyContext == [batchId |-> 0, stateHash |-> ZeroHash, processed |-> FALSE]

VARIABLES
    \* contract storage (part_000:11-33)
    owner, isProvider, paused, cooldownSeconds,
    lastSubmissionTime, lastDecryptionRequestTime,
    currentBatchId, batches, decryptionContexts,
    \* environment: block.timestamp and the decryption oracle
    now, counterRequest, oracleRequests,
    \* observation: the last call with its outcome, the readings accepted
    \* per batch, the decryption events emitted so far, and the requests
    \* for which a callback failed the integrity or the proof check
    lastCall, submitted, requestedLog, completions, rejected,
    \* number of steps taken so far
    steps

storage == <<owner, isProvider, paused, cooldownSeconds,
             lastSubmissionTime, lastDecryptionRequestTime,
             currentBatchId, batches, decryptionContexts>>
env == <<now, counterRequest, oracleRequests>>
history == <<submitted, requestedLog, completions>>
vars == <<storage, env, lastCall, history, rejected, steps>>

(***************************************************************************)
(* Initial state: the storage after the constructor (part_000:80-84).      *)
(***************************************************************************)
Init ==
    /\ owner = Deployer
    /\ isProvider = [a \in Addresses |-> FALSE]
    /\ paused = FALSE
    /\ cooldownSeconds = U256(60)
    /\ lastSubmissionTime = [a \in Addresses |-> U256(0)]
    /\ lastDecryptionRequestTime = [a \in Addresses |-> U256(0)]
    /\ currentBatchId = 0
    /\ batches = [b \in BatchIds |-> EmptyBatch]
    /\ decryptionContexts = [r \in RequestIds |-> EmptyContext]
    /\ now = U256(StartTime)
    /\ counterRequest = 1
    /\ oracleRequests = [r \in RequestIds |-> <<>>]
    /\ lastCall = [op |-> "constructor", err |-> NoError,
                   event |-> Event("OwnershipTransferred", <<"", Deployer>>)]
    /\ submitted = [b \in BatchIds |-> <<>>]
    /\ requestedLog = {}
    /\ completions = [r \in RequestIds |-> 0]
    /\ rejected = {}
    /\ steps = 0

(***************************************************************************)
(* Outcome of a call.                                                      *)
(***************************************************************************)
\* a modifier or check followed by the rest of the function: the first
\* error wins, and what follows a failed check is not evaluated
OrElse(check, rest) == IF check # NoError THEN check ELSE rest

\* one more step of the explored behaviour
Step == steps < MaxSteps /\ steps' = steps + 1

\* a reverted call: nothing changes but the record of the call
Reverted(op, err) ==
    /\ Step
    /\ lastCall' = [op |-> op, err |-> err, event |-> NoEvent]
    /\ UNCHANGED <<storage, env, history, rejected>>

\* the record of a successful call
Succeeded(op, ev) ==
    /\ Step
    /\ lastCall' = [op |-> op, err |-> NoError, event |-> ev]
    /\ UNCHANGED rejected

(***************************************************************************)
(* Modifiers (part_000:58-78).                                             *)
(***************************************************************************)
\* the owner gate left out
onlyOwner_Ignored(sender) == NoError

onlyOwner(sender) == IF sender # owner THEN "NotOwner" ELSE NoError

\* the provider gate left out
onlyProvider_Ignored(sender) == NoError

onlyProvider(sender) == IF ~isProvider[sender] THEN "NotProvider" ELSE NoError

\* the pause gate left out
whenNotPaused_Ignored == NoError

whenNotPaused == IF paused THEN "PausedState" ELSE NoError

\* the gate with the constructor's 60 seconds instead of the stored value
respectCooldown_Fixed(lastTime) ==
    IF AddOverflows(lastTime, U256(60)) THEN "Panic"
    ELSE IF Lt(now, WrapAdd(lastTime, U256(60))) THEN "CooldownActive"
    ELSE NoError

\* block.timestamp < _lastTime + cooldownSeconds, in checked uint256
\* arithmetic: the addition reverts with Panic(0x11) when it overflows
respectCooldown(lastTime) ==
    IF AddOverflows(lastTime, cooldownSeconds) THEN "Panic"
    ELSE IF Lt(now, WrapAdd(lastTime, cooldownSeconds)) THEN "CooldownActive"
    ELSE NoError

\* the timestamp recorded for every address at once
RecordTime_Everyone(lastTime, sender) == [a \in Addresses |-> now]

\* part_000:149, 167: lastTime[msg.sender] = block.timestamp
RecordTime(lastTime, sender) == [lastTime EXCEPT ![sender] = now]

(***************************************************************************)
(* AccessGuard and cooldown administration (part_000:86-114).              *)
(***************************************************************************)
\* transferOwnership announcing the transfer without making it
transferOwnership_NotStored(sender, newOwner) ==
    LET err == onlyOwner(sender) IN
    IF err # NoError THEN Reverted("transferOwnership", err)
    ELSE /\ Succeeded("transferOwnership",
                      Event("OwnershipTransferred", <<owner, newOwner>>))
         /\ UNCHANGED <<storage, env, history>>

transferOwnership(sender, newOwner) ==
    LET err == onlyOwner(sender) IN
    IF err # NoError THEN Reverted("transferOwnership", err)
    ELSE /\ owner' = newOwner
         /\ Succeeded("transferOwnership",
                      Event("OwnershipTransferred", <<owner, newOwner>>))
         /\ UNCHANGED <<isProvider, paused, cooldownSeconds,
                        lastSubmissionTime, lastDecryptionRequestTime,
                        currentBatchId, batches, decryptionContexts,
                        env, history>>

\* addProvider flipping the membership instead of setting it
addProvider_Toggle(sender, provider) ==
    LET err == onlyOwner(sender) IN
    IF err # NoError THEN Reverted("addProvider", err)
    ELSE /\ isProvider' = [isProvider EXCEPT ![provider] = ~isProvider[provider]]
         /\ Succeeded("addProvider", Event("ProviderAdded", <<provider>>))
         /\ UNCHANGED <<owner, paused, cooldownSeconds,
                        lastSubmissionTime, lastDecryptionRequestTime,
                        currentBatchId, batches, decryptionContexts,
                        env, history>>

addProvider(sender, provider) ==
    LET err == onlyOwner(sender) IN
    IF err # NoError THEN Reverted("addProvider", err)
    ELSE /\ isProvider' = [isProvider EXCEPT ![provider] = TRUE]
         /\ Succeeded("addProvider", Event("ProviderAdded", <<provider>>))
         /\ UNCHANGED <<owner, paused, cooldownSeconds,
                        lastSubmissionTime, lastDecryptionRequestTime,
                        currentBatchId, batches, decryptionContexts,
                        env, history>>

removeProvider(sender, provider) ==
    LET err == onlyOwner(sender) IN
    IF err # NoError THEN Reverted("removeProvider", err)
    ELSE /\ isProvider' = [isProvider EXCEPT ![provider] = FALSE]
         /\ Succeeded("removeProvider", Event("ProviderRemoved", <<provider>>))
         /\ UNCHANGED <<owner, paused, cooldownSeconds,
                        lastSubmissionTime, lastDecryptionRequestTime,
                        currentBatchId, batches, decryptionContexts,
                        env, history>>

\* setPaused closing the current batch as well
setPaused_ClosingBatch(sender, _paused) ==
    LET err == onlyOwner(sender) IN
    IF err # NoError THEN Reverted("setPaused", err)
    ELSE /\ paused' = _paused
         /\ batches' = [batches EXCEPT ![currentBatchId].open = FALSE]
         /\ Succeeded("setPaused",
                      IF _paused THEN Event("Paused", <<sender>>)
                                 ELSE Event("Unpaused", <<sender>>))
         /\ UNCHANGED <<owner, isProvider, cooldownSeconds,
                        lastSubmissionTime, lastDecryptionRequestTime,
                        currentBatchId, decryptionContexts,
                        env, history>>

setPaused(sender, _paused) ==
    LET err == onlyOwner(sender) IN
    IF err # NoError THEN Reverted("setPaused", err)
    ELSE /\ paused' = _paused
         /\ Succeeded("setPaused",
                      IF _paused THEN Event("Paused", <<sender>>)
                                 ELSE Event("Unpaused", <<sender>>))
         /\ UNCHANGED <<owner, isProvider, cooldownSeconds,
                        lastSubmissionTime, lastDecryptionRequestTime,
                        currentBatchId, batches, decryptionContexts,
                        env, history>>

setCooldownSeconds(sender, _cooldownSeconds) ==
    LET err == onlyOwner(sender) IN
    IF err # NoError THEN Reverted("setCooldownSeconds", err)
    ELSE /\ cooldownSeconds' = _cooldownSeconds
         /\ Succeeded("setCooldownSeconds",
                      Event("CooldownSecondsSet",
                            <<cooldownSeconds, _cooldownSeconds>>))
         /\ UNCHANGED <<owner, isProvider, paused,
                        lastSubmissionTime, lastDecryptionRequestTime,
                        currentBatchId, batches, decryptionContexts,
                        env, history>>

(***************************************************************************)
(* BatchLedger (part_000:116-151).                                         *)
(***************************************************************************)
\* openBatch without the check of part_000:117
openBatchError_NoOpenCheck(sender) ==
    OrElse(onlyOwner(sender), whenNotPaused)

openBatchError(sender) ==
    OrElse(onlyOwner(sender),
    OrElse(whenNotPaused,
           IF batches[currentBatchId].open THEN "BatchOpen" ELSE NoError))

\* an id skipped at each allocation
NextBatchId_Skipping == currentBatchId + 2

\* part_000:118 (currentBatchId++): the id the next batch gets
NextBatchId == currentBatchId + 1

openBatch(sender) ==
    LET err == openBatchError(sender)
        newId == NextBatchId
    IN
    IF err # NoError THEN Reverted("openBatch", err)
    ELSE /\ currentBatchId < MaxBatches
         /\ currentBatchId' = newId
         /\ batches' = [batches EXCEPT ![newId] =
                [id |-> newId, open |-> TRUE, dataCount |-> 0,
                 encryptedTotalVibration |-> asEuint32(U32(0)),
                 encryptedMaxTemperature |-> asEuint32(U32(0))]]
         /\ Succeeded("openBatch", Event("BatchOpened", <<newId>>))
         /\ UNCHANGED <<owner, isProvider, paused, cooldownSeconds,
                        lastSubmissionTime, lastDecryptionRequestTime,
                        decryptionContexts, env, history>>

\* closeBatch without the check of part_000:129
closeBatchError_NoOpenCheck(sender) ==
    OrElse(onlyOwner(sender), whenNotPaused)

closeBatchError(sender) ==
    OrElse(onlyOwner(sender),
    OrElse(whenNotPaused,
           IF ~batches[currentBatchId].open THEN "BatchNotOpen" ELSE NoError))

closeBatch(sender) ==
    LET err == closeBatchError(sender) IN
    IF err # NoError THEN Reverted("closeBatch", err)
    ELSE /\ batches' = [batches EXCEPT ![currentBatchId].open = FALSE]
         /\ Succeeded("closeBatch", Event("BatchClosed", <<currentBatchId>>))
         /\ UNCHANGED <<owner, isProvider, paused, cooldownSeconds,
                        lastSubmissionTime, lastDecryptionRequestTime,
                        currentBatchId, decryptionContexts, env, history>>

\* submitData without the check of part_000:142
submitDataError_NoOpenCheck(sender) ==
    OrElse(onlyProvider(sender),
    OrElse(whenNotPaused,
           respectCooldown(lastSubmissionTime[sender])))

submitDataError(sender) ==
    OrElse(onlyProvider(sender),
    OrElse(whenNotPaused,
    OrElse(respectCooldown(lastSubmissionTime[sender]),
           IF ~batches[currentBatchId].open THEN "BatchNotOpen" ELSE NoError)))

\* the accumulator overwritten by the submitted value instead of added to
AccumulateTotal_Overwrite(total, encryptedVibration) == encryptedVibration

\* part_000:145: the new sum accumulator
AccumulateTotal(total, encryptedVibration) == FHEadd(total, encryptedVibration)

\* part_000:146-147: the new max accumulator.  The arguments of FHE.select
\* are passed in the order of the source: the old maximum in the control
\* position, the temperature as the first branch, the comparison result as
\* the second branch.
AccumulateMax(max, encryptedTemperature) ==
    LET isGreater == FHEge(encryptedTemperature, max)
    IN FHEselect(max, encryptedTemperature, isGreater)

\* a submission counted twice
NextDataCount_ByTwo(currentBatch) == currentBatch.dataCount + 2

\* part_000:143 (currentBatch.dataCount++)
NextDataCount(currentBatch) == currentBatch.dataCount + 1

\* _initIfNeeded (part_000:139-140, 203-207) works on a copy of its
\* argument and writes no storage, so it contributes nothing to the step.
submitData(sender, encryptedVibration, encryptedTemperature) ==
    LET err == submitDataError(sender)
        currentBatch == batches[currentBatchId]
    IN
    IF err # NoError THEN Reverted("submitData", err)
    ELSE /\ currentBatch.dataCount < MaxSubmits
         /\ batches' = [batches EXCEPT ![currentBatchId] =
                [currentBatch EXCEPT
                    !.dataCount = NextDataCount(currentBatch),
                    !.encryptedTotalVibration =
                        AccumulateTotal(currentBatch.encryptedTotalVibration,
                                        encryptedVibration),
                    !.encryptedMaxTemperature =
                        AccumulateMax(currentBatch.encryptedMaxTemperature,
                                      encryptedTemperature)]]
         /\ lastSubmissionTime' = RecordTime(lastSubmissionTime, sender)
         /\ submitted' = [submitted EXCEPT ![currentBatchId] =
                Append(@, [vibration |-> Decrypt(encryptedVibration),
                           temperature |-> Decrypt(encryptedTemperature)])]
         /\ Succeeded("submitData",
                      Event("DataSubmitted",
                            <<sender, currentBatchId,
                              NextDataCount(currentBatch)>>))
         /\ UNCHANGED <<owner, isProvider, paused, cooldownSeconds,
                        lastDecryptionRequestTime, currentBatchId,
                        decryptionContexts, env, requestedLog, completions>>

(***************************************************************************)
(* DecryptionBridge (part_000:153-201) and the decryption oracle.          *)
(***************************************************************************)
\* keccak256(abi.encode(cts, address(this))): an injective digest of the
\* handle list and the contract address
_hashCiphertexts(cts) == [cts |-> cts, this |-> ThisAddress]

\* the two ciphertext identifiers of a batch, as both functions build them
BatchCiphertexts(batchId) ==
    <<toBytes32(batches[batchId].encryptedTotalVibration),
      toBytes32(batches[batchId].encryptedMaxTemperature)>>

\* request ids the oracle has handed out so far (FHE.requestDecryption
\* numbers the requests consecutively; the first id is 1)
IssuedRequests == 1..(counterRequest - 1)

\* what the key holders decrypt for request r: the ABI encoding of the
\* cleartexts of the handles registered with the request
KMSDecryption(r) ==
    AbiEncode(Decrypt(oracleRequests[r][1].bytes32),
              Decrypt(oracleRequests[r][2].bytes32))

\* the signature the key holders issue for request r
KMSProof(r) ==
    [signer |-> "KMS", handles |-> oracleRequests[r],
     cleartexts |-> KMSDecryption(r)]

ForgedProof == [signer |-> "attacker", handles |-> <<>>, cleartexts |-> <<>>]

WrongCleartexts == AbiEncode(U32(9), U32(9))

\* FHE.checkSignatures: the proof is a key-holder signature over the
\* handles registered for requestId and over exactly these cleartexts
checkSignatures(requestId, cleartexts, proof) ==
    /\ proof.signer = "KMS"
    /\ oracleRequests[requestId] # <<>>
    /\ proof.handles = oracleRequests[requestId]
    /\ proof.cleartexts = cleartexts

\* the (cleartexts, proof) pairs a caller of myCallback can present: the
\* oracle's genuine delivery for any issued request, a genuine proof with
\* substituted cleartexts, or a forgery
Deliveries ==
    {[cleartexts |-> KMSDecryption(r), proof |-> KMSProof(r)] : r \in IssuedRequests}
    \cup {[cleartexts |-> WrongCleartexts, proof |-> KMSProof(r)] : r \in IssuedRequests}
    \cup {[cleartexts |-> WrongCleartexts, proof |-> ForgedProof]}

\* requestBatchDecryption refusing a batch that was requested before
requestBatchDecryptionError_OncePerBatch(sender, batchId) ==
    OrElse(onlyOwner(sender),
    OrElse(whenNotPaused,
    OrElse(respectCooldown(lastDecryptionRequestTime[sender]),
           IF \/ batchId = 0 \/ batchId > currentBatchId \/ batches[batchId].open
              \/ \E r \in RequestIds : decryptionContexts[r].batchId = batchId
           THEN "InvalidBatch" ELSE NoError)))

\* requestBatchDecryption accepting a batch that is still open
requestBatchDecryptionError_OpenAccepted(sender, batchId) ==
    OrElse(onlyOwner(sender),
    OrElse(whenNotPaused,
    OrElse(respectCooldown(lastDecryptionRequestTime[sender]),
           IF batchId = 0 \/ batchId > currentBatchId
           THEN "InvalidBatch" ELSE NoError)))

requestBatchDecryptionError(sender, batchId) ==
    OrElse(onlyOwner(sender),
    OrElse(whenNotPaused,
    OrElse(respectCooldown(lastDecryptionRequestTime[sender]),
           IF batchId = 0 \/ batchId > currentBatchId \/ batches[batchId].open
           THEN "InvalidBatch" ELSE NoError)))

requestBatchDecryption(sender, batchId) ==
    LET err == requestBatchDecryptionError(sender, batchId)
        cts == BatchCiphertexts(batchId)
        stateHash == _hashCiphertexts(cts)
        requestId == counterRequest
    IN
    IF err # NoError THEN Reverted("requestBatchDecryption", err)
    ELSE /\ counterRequest <= MaxRequests
         /\ counterRequest' = counterRequest + 1
         /\ oracleRequests' = [oracleRequests EXCEPT ![requestId] = cts]
         /\ decryptionContexts' = [decryptionContexts EXCEPT ![requestId] =
                [batchId |-> batchId, stateHash |-> stateHash, processed |-> FALSE]]
         /\ lastDecryptionRequestTime' =
                RecordTime(lastDecryptionRequestTime, sender)
         /\ requestedLog' = requestedLog \cup {<<requestId, batchId>>}
         /\ Succeeded("requestBatchDecryption",
                      Event("DecryptionRequested", <<requestId, batchId>>))
         /\ UNCHANGED <<owner, isProvider, paused, cooldownSeconds,
                        lastSubmissionTime, currentBatchId, batches,
                        now, submitted, completions>>

\* myCallback with the proof check of part_000:191 left out
myCallbackError_NoProofCheck(requestId, cleartexts, proof) ==
    LET batchId == decryptionContexts[requestId].batchId IN
    IF decryptionContexts[requestId].processed THEN "ReplayAttempt"
    ELSE IF batchId = 0 \/ batchId > currentBatchId THEN "InvalidBatch"
    ELSE IF _hashCiphertexts(BatchCiphertexts(batchId))
                # decryptionContexts[requestId].stateHash THEN "StateMismatch"
    ELSE IF ~AbiDecodable(cleartexts) THEN "DecodeError"
    ELSE NoError

\* myCallback with the replay check of part_000:172 left out
myCallbackError_NoReplayCheck(requestId, cleartexts, proof) ==
    LET batchId == decryptionContexts[requestId].batchId IN
    IF batchId = 0 \/ batchId > currentBatchId THEN "InvalidBatch"
    ELSE IF _hashCiphertexts(BatchCiphertexts(batchId))
                # decryptionContexts[requestId].stateHash THEN "StateMismatch"
    ELSE IF ~checkSignatures(requestId, cleartexts, proof) THEN "DecryptionFailed"
    ELSE IF ~AbiDecodable(cleartexts) THEN "DecodeError"
    ELSE NoError

\* myCallback checking the proof before anything else
myCallbackError_ProofFirst(requestId, cleartexts, proof) ==
    LET batchId == decryptionContexts[requestId].batchId IN
    IF ~checkSignatures(requestId, cleartexts, proof) THEN "DecryptionFailed"
    ELSE IF decryptionContexts[requestId].processed THEN "ReplayAttempt"
    ELSE IF batchId = 0 \/ batchId > currentBatchId THEN "InvalidBatch"
    ELSE IF _hashCiphertexts(BatchCiphertexts(batchId))
                # decryptionContexts[requestId].stateHash THEN "StateMismatch"
    ELSE IF ~AbiDecodable(cleartexts) THEN "DecodeError"
    ELSE NoError

\* myCallback serving the requests in the order they were made only
myCallbackError_InOrder(requestId, cleartexts, proof) ==
    LET batchId == decryptionContexts[requestId].batchId IN
    IF decryptionContexts[requestId].processed THEN "ReplayAttempt"
    ELSE IF batchId = 0 \/ batchId > currentBatchId THEN "InvalidBatch"
    ELSE IF \E q \in 1..(requestId - 1) : ~decryptionContexts[q].processed
         THEN "InvalidBatch"
    ELSE IF _hashCiphertexts(BatchCiphertexts(batchId))
                # decryptionContexts[requestId].stateHash THEN "StateMismatch"
    ELSE IF ~checkSignatures(requestId, cleartexts, proof) THEN "DecryptionFailed"
    ELSE IF ~AbiDecodable(cleartexts) THEN "DecodeError"
    ELSE NoError

\* myCallback with the batch range check of part_000:179 left out
myCallbackError_NoRangeCheck(requestId, cleartexts, proof) ==
    LET batchId == decryptionContexts[requestId].batchId IN
    IF decryptionContexts[requestId].processed THEN "ReplayAttempt"
    ELSE IF _hashCiphertexts(BatchCiphertexts(batchId))
                # decryptionContexts[requestId].stateHash THEN "StateMismatch"
    ELSE IF ~checkSignatures(requestId, cleartexts, proof) THEN "DecryptionFailed"
    ELSE IF ~AbiDecodable(cleartexts) THEN "DecodeError"
    ELSE NoError

\* myCallback made to respect the pause flag
myCallbackError_PauseGated(requestId, cleartexts, proof) ==
    LET batchId == decryptionContexts[requestId].batchId IN
    IF paused THEN "PausedState"
    ELSE IF decryptionContexts[requestId].processed THEN "ReplayAttempt"
    ELSE IF batchId = 0 \/ batchId > currentBatchId THEN "InvalidBatch"
    ELSE IF _hashCiphertexts(BatchCiphertexts(batchId))
                # decryptionContexts[requestId].stateHash THEN "StateMismatch"
    ELSE IF ~checkSignatures(requestId, cleartexts, proof) THEN "DecryptionFailed"
    ELSE IF ~AbiDecodable(cleartexts) THEN "DecodeError"
    ELSE NoError

\* the integrity check of part_000:189 left out
StateHashMatches_Unchecked(requestId) == TRUE

\* part_000:185-189: the digest recomputed from the batch's current handles
\* equals the digest stored with the request
StateHashMatches(requestId) ==
    _hashCiphertexts(BatchCiphertexts(decryptionContexts[requestId].batchId))
        = decryptionContexts[requestId].stateHash

myCallbackError(requestId, cleartexts, proof) ==
    LET batchId == decryptionContexts[requestId].batchId IN
    IF decryptionContexts[requestId].processed THEN "ReplayAttempt"
    ELSE IF batchId = 0 \/ batchId > currentBatchId THEN "InvalidBatch"
    ELSE IF ~StateHashMatches(requestId) THEN "StateMismatch"
    ELSE IF ~checkSignatures(requestId, cleartexts, proof) THEN "DecryptionFailed"
    ELSE IF ~AbiDecodable(cleartexts) THEN "DecodeError"
    ELSE NoError

\* a failed integrity or proof check closing the request for good
RevertedCallback_Terminal(requestId, err) ==
    /\ Step
    /\ lastCall' = [op |-> "myCallback", err |-> err, event |-> NoEvent]
    /\ rejected' = IF err \in {"StateMismatch", "DecryptionFailed"}
                   THEN rejected \cup {requestId} ELSE rejected
    /\ decryptionContexts' =
          IF err \in {"StateMismatch", "DecryptionFailed"}
          THEN [decryptionContexts EXCEPT ![requestId].processed = TRUE]
          ELSE decryptionContexts
    /\ UNCHANGED <<owner, isProvider, paused, cooldownSeconds,
                   lastSubmissionTime, lastDecryptionRequestTime,
                   currentBatchId, batches, env, history>>

\* a myCallback call that reverts: as every reverted call it changes nothing
\* but the record of the call; a failure of the integrity check or of the
\* proof check is noted for the request it was made for
RevertedCallback(requestId, err) ==
    /\ Step
    /\ lastCall' = [op |-> "myCallback", err |-> err, event |-> NoEvent]
    /\ rejected' = IF err \in {"StateMismatch", "DecryptionFailed"}
                   THEN rejected \cup {requestId} ELSE rejected
    /\ UNCHANGED <<storage, env, history>>

\* myCallback reserved to the owner
myCallback_OwnerOnly(sender, requestId, cleartexts, proof) ==
    LET err == OrElse(onlyOwner(sender),
                      myCallbackError(requestId, cleartexts, proof))
        batchId == decryptionContexts[requestId].batchId
        decoded == AbiDecode(cleartexts)
    IN
    IF err # NoError THEN RevertedCallback(requestId, err)
    ELSE /\ decryptionContexts' =
                [decryptionContexts EXCEPT ![requestId].processed = TRUE]
         /\ completions' = [completions EXCEPT ![requestId] = @ + 1]
         /\ Succeeded("myCallback",
                      Event("DecryptionCompleted",
                            <<requestId, batchId, decoded[1], decoded[2]>>))
         /\ UNCHANGED <<owner, isProvider, paused, cooldownSeconds,
                        lastSubmissionTime, lastDecryptionRequestTime,
                        currentBatchId, batches, env, submitted, requestedLog>>

myCallback(sender, requestId, cleartexts, proof) ==
    LET err == myCallbackError(requestId, cleartexts, proof)
        batchId == decryptionContexts[requestId].batchId
        decoded == AbiDecode(cleartexts)
    IN
    IF err # NoError THEN RevertedCallback(requestId, err)
    ELSE /\ decryptionContexts' =
                [decryptionContexts EXCEPT ![requestId].processed = TRUE]
         /\ completions' = [completions EXCEPT ![requestId] = @ + 1]
         /\ Succeeded("myCallback",
                      Event("DecryptionCompleted",
                            <<requestId, batchId, decoded[1], decoded[2]>>))
         /\ UNCHANGED <<owner, isProvider, paused, cooldownSeconds,
                        lastSubmissionTime, lastDecryptionRequestTime,
                        currentBatchId, batches, env, submitted, requestedLog>>

(***************************************************************************)
(* Environment: time passes between transactions.                          *)
(***************************************************************************)
Tick(d) ==
    /\ ~Lt(U256(MaxTime), WrapAdd(now, U256(d)))
    /\ Step
    /\ now' = WrapAdd(now, U256(d))
    /\ UNCHANGED <<storage, counterRequest, oracleRequests, lastCall, history,
                   rejected>>

(***************************************************************************)
(* Next-state relation: any address calls any function with any input.     *)
(***************************************************************************)
Next ==
    \/ \E s \in Addresses, a \in Addresses : transferOwnership(s, a)
    \/ \E s \in Addresses, a \in Addresses : addProvider(s, a)
    \/ \E s \in Addresses, a \in Addresses : removeProvider(s, a)
    \/ \E s \in Addresses, p \in BOOLEAN : setPaused(s, p)
    \/ \E s \in Addresses, c \in CooldownInputs : setCooldownSeconds(s, c)
    \/ \E s \in Addresses : openBatch(s)
    \/ \E s \in Addresses : closeBatch(s)
    \/ \E s \in Addresses, r \in Readings :
            submitData(s, InputHandle(r.vibration), InputHandle(r.temperature))
    \/ \E s \in Addresses, b \in 0..(MaxBatches + 1) : requestBatchDecryption(s, b)
    \/ \E s \in Addresses, r \in RequestIds, d \in Deliveries :
            myCallback(s, r, d.cleartexts, d.proof)
    \/ \E d \in TickDeltas : Tick(d)

Spec == Init /\ [][Next]_vars

(***************************************************************************)
(* myCallback as a function of the storage it finds.  The public           *)
(* operations never change the accumulators of a closed batch, so the      *)
(* integrity check of myCallback cannot fail in a behaviour of Spec.  To   *)
(* exercise it, this specification starts myCallback in a storage with one *)
(* closed batch and one stored request, where the batch's accumulators     *)
(* need not be the ones snapshotted when the request was made (the digest  *)
(* and the oracle's record are those requestBatchDecryption stores for the *)
(* snapshot).                                                              *)
(***************************************************************************)
\* a batch record after openBatch and zero, one or two submissions, with
\* the readings that were submitted
AccumulatorStates ==
    LET zero == asEuint32(U32(0))
        r1 == [vibration |-> U32(1), temperature |-> U32(7)]
        r2 == [vibration |-> MAX_UINT32, temperature |-> U32(3)]
        total1 == AccumulateTotal(zero, InputHandle(r1.vibration))
        max1 == AccumulateMax(zero, InputHandle(r1.temperature))
    IN { [readings |-> <<>>, total |-> zero, max |-> zero],
         [readings |-> <<r1>>, total |-> total1, max |-> max1],
         [readings |-> <<r1, r2>>,
          total |-> AccumulateTotal(total1, InputHandle(r2.vibration)),
          max |-> AccumulateMax(max1, InputHandle(r2.temperature))] }

InitAnyAccumulators ==
    /\ owner = Deployer
    /\ isProvider = [a \in Addresses |-> FALSE]
    /\ paused = FALSE
    /\ cooldownSeconds = U256(60)
    /\ lastSubmissionTime = [a \in Addresses |-> U256(0)]
    /\ lastDecryptionRequestTime =
          [a \in Addresses |-> IF a = Deployer THEN U256(StartTime) ELSE U256(0)]
    /\ currentBatchId = 1
    /\ \E acc \in AccumulatorStates :
          /\ batches = [b \in BatchIds |->
                IF b = 1
                THEN [id |-> 1, open |-> FALSE, dataCount |-> Len(acc.readings),
                      encryptedTotalVibration |-> acc.total,
                      encryptedMaxTemperature |-> acc.max]
                ELSE EmptyBatch]
          /\ submitted = [b \in BatchIds |-> IF b = 1 THEN acc.readings ELSE <<>>]
    /\ \E snapTotal \in AccumulatorStates, snapMax \in AccumulatorStates,
          done \in BOOLEAN :
          LET cts == <<toBytes32(snapTotal.total), toBytes32(snapMax.max)>> IN
          /\ oracleRequests = [r \in RequestIds |-> IF r = 1 THEN cts ELSE <<>>]
          /\ decryptionContexts = [r \in RequestIds |->
                IF r = 1
                THEN [batchId |-> 1, stateHash |-> _hashCiphertexts(cts),
                      processed |-> done]
                ELSE EmptyContext]
          /\ completions = [r \in RequestIds |-> IF r = 1 /\ done THEN 1 ELSE 0]
    /\ now = U256(StartTime)
    /\ counterRequest = 2
    /\ lastCall = [op |-> "requestBatchDecryption", err |-> NoError,
                   event |-> Event("DecryptionRequested", <<1, 1>>)]
    /\ requestedLog = {<<1, 1>>}
    /\ rejected = {}
    /\ steps = 0

NextCallback ==
    \E s \in Addresses, r \in RequestIds, d \in Deliveries :
        myCallback(s, r, d.cleartexts, d.proof)

SpecAnyAccumulators == InitAnyAccumulators /\ [][NextCallback]_vars

(***************************************************************************)
(* The decryption oracle as a fair process.  The oracle answers every      *)
(* request it accepted: for a request that is issued and not yet           *)
(* completed it calls myCallback with its decryption and its signature.    *)
(* In this specification the calls of everybody else stop MaxRequests      *)
(* steps before the step budget ends, so that the budget never keeps the   *)
(* oracle from answering, and the oracle's deliveries are weakly fair.     *)
(***************************************************************************)
EngineDelivers(r) ==
    /\ r \in IssuedRequests
    /\ ~decryptionContexts[r].processed
    /\ \E s \in Addresses : myCallback(s, r, KMSDecryption(r), KMSProof(r))

NextFair ==
    \/ steps < MaxSteps - MaxRequests /\ Next
    \/ \E r \in RequestIds : EngineDelivers(r)

SpecFair ==
    /\ Init
    /\ [][NextFair]_vars
    /\ \A r \in RequestIds : WF_vars(EngineDelivers(r))

(***************************************************************************)
(* Properties.                                                             *)
(***************************************************************************)
\* the step just taken is a call of the function named op
Called(op) == lastCall'.op = op

\* C1: a requestId completes at most once.  No requestId ever has more than
\* one DecryptionCompleted event; a myCallback call on a context that is
\* already processed reverts with ReplayAttempt and changes neither the
\* storage, the oracle nor the event history; and a processed flag that is
\* true stays true in every step.
C1_CompletesAtMostOnce ==
    [][ /\ \A r \in RequestIds : completions'[r] <= 1
        /\ \A r \in RequestIds :
              decryptionContexts[r].processed => decryptionContexts'[r].processed
        /\ \A s \in Addresses, r \in RequestIds, d \in Deliveries :
              ( /\ Called("myCallback")
                /\ decryptionContexts[r].processed
                /\ myCallback(s, r, d.cleartexts, d.proof) )
              => /\ lastCall'.err = "ReplayAttempt"
                 /\ UNCHANGED <<storage, env, history>>
      ]_vars

\* C1 witness: a replayed callback has just been rejected for a request
\* that completed once.
C1_Witness ==
    /\ lastCall.op = "myCallback"
    /\ lastCall.err = "ReplayAttempt"
    /\ \E r \in RequestIds :
          decryptionContexts[r].processed /\ completions[r] = 1

\* C2: tamper detection.  A myCallback call on a pending context whose
\* recomputed digest differs from the stored one reverts with StateMismatch
\* for every cleartexts and proof, and the context stays unprocessed; and
\* whenever a call completes a request, the batch's two handles are the
\* ones registered with the oracle when the request was made.
C2_TamperDetected ==
    [][ \A s \in Addresses, r \in IssuedRequests, d \in Deliveries :
          (Called("myCallback") /\ myCallback(s, r, d.cleartexts, d.proof))
          => /\ (~decryptionContexts[r].processed /\ ~StateHashMatches(r))
                  => /\ lastCall'.err = "StateMismatch"
                     /\ ~decryptionContexts'[r].processed
             /\ lastCall'.err = NoError
                  => BatchCiphertexts(decryptionContexts[r].batchId)
                        = oracleRequests[r]
      ]_vars

\* C2 witness: a callback carrying the oracle's genuine proof has just been
\* rejected with StateMismatch, the batch's handles differing from the
\* snapshot.
C2_Witness ==
    /\ lastCall.op = "myCallback"
    /\ lastCall.err = "StateMismatch"
    /\ \E r \in IssuedRequests :
          /\ ~decryptionContexts[r].processed
          /\ BatchCiphertexts(decryptionContexts[r].batchId) # oracleRequests[r]

\* C3: no completion without a valid proof.  For a myCallback call on a
\* pending context whose digest matches: if the proof check rejects
\* (requestId, cleartexts, proof), the call reverts with DecryptionFailed,
\* emits nothing and leaves the context unprocessed; if it accepts, the
\* context becomes processed and DecryptionCompleted carries the requestId,
\* the batchId the request was made for, and the two values the cleartexts
\* encode.
C3_ProofRequired ==
    [][ \A s \in Addresses, r \in IssuedRequests, d \in Deliveries :
          ( /\ Called("myCallback")
            /\ ~decryptionContexts[r].processed
            /\ StateHashMatches(r)
            /\ myCallback(s, r, d.cleartexts, d.proof) )
          => IF ~checkSignatures(r, d.cleartexts, d.proof)
             THEN /\ lastCall'.err = "DecryptionFailed"
                  /\ lastCall'.event = NoEvent
                  /\ ~decryptionContexts'[r].processed
                  /\ completions' = completions
             ELSE /\ lastCall'.err = NoError
                  /\ decryptionContexts'[r].processed
                  /\ lastCall'.event.name = "DecryptionCompleted"
                  /\ lastCall'.event.args[1] = r
                  /\ <<r, lastCall'.event.args[2]>> \in requestedLog
                  /\ AbiEncode(lastCall'.event.args[3], lastCall'.event.args[4])
                        = d.cleartexts
      ]_vars

\* C3 witness: a callback on a pending, untampered request has just been
\* rejected for its proof.
C3_Witness ==
    /\ lastCall.op = "myCallback"
    /\ lastCall.err = "DecryptionFailed"
    /\ \E r \in IssuedRequests :
          ~decryptionContexts[r].processed /\ StateHashMatches(r)

\* now >= lastTime + cooldownSeconds over the naturals (a sum beyond the
\* 256-bit range is greater than every timestamp)
CooldownElapsed(lastTime) ==
    /\ ~AddOverflows(lastTime, cooldownSeconds)
    /\ ~Lt(now, WrapAdd(lastTime, cooldownSeconds))

\* C4: requestBatchDecryption(batchId) with batchId = 0, batchId >
\* currentBatchId or an open batch reverts, leaving every decryption context
\* and every lastDecryptionRequestTime as it was; when the caller is the
\* owner, the contract is not paused and the cooldown has elapsed, the error
\* is InvalidBatch.
C4_InvalidBatchRejected ==
    [][ \A s \in Addresses, b \in 0..(MaxBatches + 1) :
          ( /\ Called("requestBatchDecryption")
            /\ (b = 0 \/ b > currentBatchId \/ batches[b].open)
            /\ requestBatchDecryption(s, b) )
          => /\ lastCall'.err # NoError
             /\ UNCHANGED <<decryptionContexts, lastDecryptionRequestTime,
                            oracleRequests, counterRequest>>
             /\ ( /\ s = owner
                  /\ ~paused
                  /\ CooldownElapsed(lastDecryptionRequestTime[s]) )
                  => lastCall'.err = "InvalidBatch"
      ]_vars

\* C4 witness: a request for the batch that is still open has just been
\* rejected with InvalidBatch.
C4_Witness ==
    /\ lastCall.op = "requestBatchDecryption"
    /\ lastCall.err = "InvalidBatch"
    /\ currentBatchId >= 1
    /\ batches[currentBatchId].open

(***************************************************************************)
(* Arithmetic of the claims about the accumulators: exact sums are taken   *)
(* with one more limb than a uint32, where they cannot wrap for the        *)
(* numbers of submissions explored.                                        *)
(***************************************************************************)
\* a uint32 as a number with one more (leading) limb
Widen(v) == <<0>> \o v

\* the low 32 bits of a widened number
Low32(w) == Tail(w)

\* the exact sum of the vibration values of a sequence of readings
RECURSIVE ExactVibrationSum(_)
ExactVibrationSum(readings) ==
    IF readings = <<>> THEN Widen(U32(0))
    ELSE WrapAdd(ExactVibrationSum(Tail(readings)),
                 Widen(Head(readings).vibration))

\* the greatest temperature of a non-empty sequence of readings
RECURSIVE MaxTemperature(_)
MaxTemperature(readings) ==
    IF Len(readings) = 1 THEN Head(readings).temperature
    ELSE LET rest == MaxTemperature(Tail(readings))
         IN IF Lt(Head(readings).temperature, rest)
            THEN rest ELSE Head(readings).temperature

\* the sum accumulator after openBatch and the submissions of `readings`,
\* in this order
RECURSIVE TotalAfter(_)
TotalAfter(readings) ==
    IF readings = <<>> THEN asEuint32(U32(0))
    ELSE AccumulateTotal(TotalAfter(SubSeq(readings, 1, Len(readings) - 1)),
                         InputHandle(readings[Len(readings)].vibration))

\* the orders in which n submissions can arrive
Orders(n) == {f \in [1..n -> 1..n] : \A i, j \in 1..n : f[i] = f[j] => i = j}

Reordered(readings, f) == [i \in 1..Len(readings) |-> readings[f[i]]]

\* batches that have been opened and closed
ClosedBatches == {b \in 1..currentBatchId : ~batches[b].open}

\* C5 as stated: after closing, the sum accumulator decrypts to the exact
\* arithmetic sum of the submitted vibration values.
C5_ExactSum ==
    \A b \in ClosedBatches :
        Widen(Decrypt(batches[b].encryptedTotalVibration))
            = ExactVibrationSum(submitted[b])

\* C5 amended: after closing, the sum accumulator decrypts to the sum of
\* the submitted vibration values modulo 2^32 (the exact sum whenever that
\* is below 2^32), and every order of the same submissions decrypts to the
\* same value.
C5_SumModulo32 ==
    \A b \in ClosedBatches :
        /\ Decrypt(batches[b].encryptedTotalVibration)
              = Low32(ExactVibrationSum(submitted[b]))
        /\ ExactVibrationSum(submitted[b])[1] = 0
              => Widen(Decrypt(batches[b].encryptedTotalVibration))
                    = ExactVibrationSum(submitted[b])
        /\ \A f \in Orders(Len(submitted[b])) :
              Decrypt(TotalAfter(Reordered(submitted[b], f)))
                  = Decrypt(batches[b].encryptedTotalVibration)

\* C5 witness: a closed batch that received two different readings.
C5_Witness ==
    \E b \in ClosedBatches :
        /\ Len(submitted[b]) = 2
        /\ submitted[b][1] # submitted[b][2]

\* C6: after at least one submission, the max accumulator decrypts to the
\* greatest submitted temperature, whatever the order of the submissions.
C6_TrueMaximum ==
    \A b \in 1..currentBatchId :
        submitted[b] # <<>>
        => Decrypt(batches[b].encryptedMaxTemperature)
              = MaxTemperature(submitted[b])

\* C7: a batch record with open = true is the record of currentBatchId, so
\* at most one batch is open.
C7_OnlyCurrentBatchOpen ==
    /\ \A b \in BatchIds : batches[b].open => b = currentBatchId
    /\ Cardinality({b \in BatchIds : batches[b].open}) <= 1

\* C7 witness: the second batch is open after the first was closed.
C7_Witness ==
    /\ currentBatchId = 2
    /\ batches[2].open
    /\ ~batches[1].open

\* C8: called by the owner while not paused, openBatch reverts, with
\* BatchOpen, exactly when the batch of currentBatchId is open, and
\* closeBatch reverts, with BatchNotOpen, exactly when it is not open (as in
\* the initial state); a reverted call leaves currentBatchId and every batch
\* record unchanged.
C8_OpenCloseFailIff ==
    [][ \A s \in Addresses :
          /\ ( /\ Called("openBatch")
               /\ s = owner /\ ~paused
               /\ openBatch(s) )
             => /\ lastCall'.err # NoError <=> batches[currentBatchId].open
                /\ lastCall'.err # NoError
                     => /\ lastCall'.err = "BatchOpen"
                        /\ UNCHANGED <<currentBatchId, batches>>
          /\ ( /\ Called("closeBatch")
               /\ s = owner /\ ~paused
               /\ closeBatch(s) )
             => /\ lastCall'.err # NoError <=> ~batches[currentBatchId].open
                /\ lastCall'.err # NoError
                     => /\ lastCall'.err = "BatchNotOpen"
                        /\ UNCHANGED <<currentBatchId, batches>>
      ]_vars

\* C8 witness: closeBatch has just been rejected with BatchNotOpen in a
\* state where no batch was ever opened.
C8_Witness ==
    /\ lastCall.op = "closeBatch"
    /\ lastCall.err = "BatchNotOpen"
    /\ currentBatchId = 0

\* C9: the cooldown gate.  A submitData or requestBatchDecryption call that
\* passes every other check reverts with CooldownActive when
\* now < lastTime[A] + cooldownSeconds, and otherwise succeeds and records
\* lastTime[A] = now.
C9_CooldownGate ==
    [][ /\ \A s \in Addresses, r \in Readings :
              ( /\ Called("submitData")
                /\ isProvider[s] /\ ~paused /\ batches[currentBatchId].open
                /\ submitData(s, InputHandle(r.vibration),
                              InputHandle(r.temperature)) )
              => IF CooldownElapsed(lastSubmissionTime[s])
                 THEN /\ lastCall'.err = NoError
                      /\ lastSubmissionTime'[s] = now
                 ELSE lastCall'.err = "CooldownActive"
        /\ \A s \in Addresses, b \in ClosedBatches :
              ( /\ Called("requestBatchDecryption")
                /\ s = owner /\ ~paused
                /\ requestBatchDecryption(s, b) )
              => IF CooldownElapsed(lastDecryptionRequestTime[s])
                 THEN /\ lastCall'.err = NoError
                      /\ lastDecryptionRequestTime'[s] = now
                 ELSE lastCall'.err = "CooldownActive"
      ]_vars

\* C10: while paused, every call of submitData, openBatch, closeBatch and
\* requestBatchDecryption reverts, with PausedState when the caller has the
\* role the function requires, and leaves the batch records, currentBatchId,
\* the decryption contexts and both timestamp tables unchanged.
C10_PausedRejects ==
    [][ paused =>
        /\ \A s \in Addresses, r \in Readings :
              ( /\ Called("submitData")
                /\ submitData(s, InputHandle(r.vibration),
                              InputHandle(r.temperature)) )
              => /\ lastCall'.err # NoError
                 /\ isProvider[s] => lastCall'.err = "PausedState"
        /\ \A s \in Addresses :
              (Called("openBatch") /\ openBatch(s))
              => /\ lastCall'.err # NoError
                 /\ s = owner => lastCall'.err = "PausedState"
        /\ \A s \in Addresses :
              (Called("closeBatch") /\ closeBatch(s))
              => /\ lastCall'.err # NoError
                 /\ s = owner => lastCall'.err = "PausedState"
        /\ \A s \in Addresses, b \in 0..(MaxBatches + 1) :
              (Called("requestBatchDecryption") /\ requestBatchDecryption(s, b))
              => /\ lastCall'.err # NoError
                 /\ s = owner => lastCall'.err = "PausedState"
        /\ lastCall'.op \in {"submitData", "openBatch", "closeBatch",
                             "requestBatchDecryption"}
              => UNCHANGED <<batches, currentBatchId, decryptionContexts,
                             lastSubmissionTime, lastDecryptionRequestTime>>
      ]_vars

\* C10 witness: a provider's submitData has just been rejected with
\* PausedState while a batch is open.
C10_Witness ==
    /\ paused
    /\ lastCall.op = "submitData"
    /\ lastCall.err = "PausedState"
    /\ batches[currentBatchId].open

\* the step just taken is a call of one of the functions named in ops (time
\* does not pass within a call)
CalledOneOf(ops) == now' = now /\ lastCall'.op \in ops

\* C11 as stated: while paused, every call of addProvider, removeProvider,
\* setCooldownSeconds, openBatch, closeBatch, submitData,
\* requestBatchDecryption and myCallback reverts.
C11_PausedBlocksAll ==
    [][ (paused /\ CalledOneOf({"addProvider", "removeProvider",
                                "setCooldownSeconds", "openBatch", "closeBatch",
                                "submitData", "requestBatchDecryption",
                                "myCallback"}))
        => lastCall'.err # NoError
      ]_vars

\* a request that was issued and has not completed
PendingRequests == {r \in IssuedRequests : ~decryptionContexts[r].processed}

\* C11 amended: the pause flag gates openBatch, closeBatch, submitData and
\* requestBatchDecryption and nothing else.  While paused, every call of
\* these four reverts; a call of transferOwnership, addProvider,
\* removeProvider, setCooldownSeconds or setPaused (with either value) by
\* the owner succeeds; and a myCallback call for a pending request with a
\* proof the oracle issued for it succeeds.
C11_PauseGatesLedgerOnly ==
    [][ paused =>
        /\ CalledOneOf({"openBatch", "closeBatch", "submitData",
                        "requestBatchDecryption"})
              => lastCall'.err # NoError
        /\ ( /\ CalledOneOf({"transferOwnership", "addProvider", "removeProvider",
                             "setCooldownSeconds", "setPaused"})
             /\ \/ \E a \in Addresses : transferOwnership(owner, a)
                \/ \E a \in Addresses : addProvider(owner, a)
                \/ \E a \in Addresses : removeProvider(owner, a)
                \/ \E c \in CooldownInputs : setCooldownSeconds(owner, c)
                \/ \E p \in BOOLEAN : setPaused(owner, p) )
              => lastCall'.err = NoError
        /\ \A s \in Addresses, r \in PendingRequests :
              ( /\ Called("myCallback")
                /\ myCallback(s, r, KMSDecryption(r), KMSProof(r)) )
              => /\ lastCall'.err = NoError
                 /\ decryptionContexts'[r].processed
      ]_vars

\* C11 witness: a request has just completed while the contract is paused.
C11_Witness ==
    /\ paused
    /\ lastCall.op = "myCallback"
    /\ lastCall.err = NoError
    /\ \E r \in IssuedRequests : decryptionContexts[r].processed

\* C12: a call of transferOwnership, addProvider, removeProvider, setPaused,
\* setCooldownSeconds, openBatch, closeBatch or requestBatchDecryption by an
\* address other than the current owner reverts with NotOwner, whatever the
\* arguments and the state, and changes neither the storage, the oracle nor
\* the event history.
C12_OwnerOnly ==
    [][ \A s \in Addresses \ {owner} :
          ( \/ /\ Called("transferOwnership")
               /\ \E a \in Addresses : transferOwnership(s, a)
            \/ /\ Called("addProvider")
               /\ \E a \in Addresses : addProvider(s, a)
            \/ /\ Called("removeProvider")
               /\ \E a \in Addresses : removeProvider(s, a)
            \/ /\ Called("setPaused")
               /\ \E p \in BOOLEAN : setPaused(s, p)
            \/ /\ Called("setCooldownSeconds")
               /\ \E c \in CooldownInputs : setCooldownSeconds(s, c)
            \/ /\ Called("openBatch")
               /\ openBatch(s)
            \/ /\ Called("closeBatch")
               /\ closeBatch(s)
            \/ /\ Called("requestBatchDecryption")
               /\ \E b \in 0..(MaxBatches + 1) : requestBatchDecryption(s, b) )
          => /\ lastCall'.err = "NotOwner"
             /\ lastCall'.event = NoEvent
             /\ UNCHANGED <<storage, env, history>>
      ]_vars

\* C12 witness: a request by a non-owner for a closed batch has just been
\* rejected with NotOwner while the contract is not paused.
C12_Witness ==
    /\ lastCall.op = "requestBatchDecryption"
    /\ lastCall.err = "NotOwner"
    /\ ~paused
    /\ ClosedBatches # {}

\* C13: submitData succeeds only for a caller that is in the provider set
\* at the time of the call.  A caller that is not (never added, or removed
\* since; the owner has no exemption) is rejected with NotProvider, and the
\* call changes neither the batch records (dataCount and both accumulators
\* included) nor any other storage.
C13_ProviderOnly ==
    [][ \A s \in Addresses, r \in Readings :
          ( /\ Called("submitData")
            /\ submitData(s, InputHandle(r.vibration), InputHandle(r.temperature)) )
          => /\ lastCall'.err = NoError => isProvider[s]
             /\ ~isProvider[s]
                  => /\ lastCall'.err = "NotProvider"
                     /\ UNCHANGED <<storage, env, history>>
      ]_vars

\* C13 witness: submitData has just been rejected with NotProvider while a
\* batch is open and nobody is a provider, one address having submitted to
\* that batch before it was removed.
C13_Witness ==
    /\ lastCall.op = "submitData"
    /\ lastCall.err = "NotProvider"
    /\ batches[currentBatchId].open
    /\ batches[currentBatchId].dataCount = 1
    /\ \A a \in Addresses : ~isProvider[a]
    /\ \E a \in Addresses : lastSubmissionTime[a] # U256(0)

\* request ids under which no decryption context was ever stored
NeverRequested == {r \in RequestIds : \A b \in BatchIds : <<r, b>> \notin requestedLog}

\* C14 as stated: a myCallback call for a requestId under which no context
\* was ever stored reverts with ReplayAttempt, whatever cleartexts and proof
\* it carries.
C14_UnknownIsReplay ==
    [][ \A s \in Addresses, r \in NeverRequested, d \in Deliveries :
          ( /\ Called("myCallback")
            /\ myCallback(s, r, d.cleartexts, d.proof) )
          => lastCall'.err = "ReplayAttempt"
      ]_vars

\* C14 amended: a myCallback call for a requestId under which no context
\* was ever stored reverts with InvalidBatch, whatever cleartexts and proof
\* it carries, and changes neither the storage, the oracle nor the event
\* history; ReplayAttempt is the error of a processed context only.
C14_UnknownIsInvalidBatch ==
    [][ \A s \in Addresses, r \in RequestIds, d \in Deliveries :
          ( /\ Called("myCallback")
            /\ myCallback(s, r, d.cleartexts, d.proof) )
          => /\ r \in NeverRequested
                  => /\ lastCall'.err = "InvalidBatch"
                     /\ UNCHANGED <<storage, env, history>>
             /\ lastCall'.err = "ReplayAttempt"
                  => decryptionContexts[r].processed
      ]_vars

\* C14 witness: a callback for a requestId never handed out has just been
\* rejected with InvalidBatch, another request being pending.
C14_Witness ==
    /\ lastCall.op = "myCallback"
    /\ lastCall.err = "InvalidBatch"
    /\ NeverRequested # {}
    /\ PendingRequests # {}

\* C15 as stated: a request for which a myCallback call has failed the
\* integrity check or the proof check is never completed afterwards.
C15_RejectedIsTerminal ==
    \A r \in rejected : ~decryptionContexts[r].processed

\* C15 amended: a rejection is not a state of the request.  A myCallback
\* call that reverts, with whatever error, changes neither the storage, the
\* oracle nor the event history, so the request it was made for is as
\* pending as before; and a request that was rejected and is still pending
\* completes on a myCallback call carrying the oracle's proof for it.
C15_RejectionLeavesPending ==
    [][ /\ (Called("myCallback") /\ now' = now /\ lastCall'.err # NoError)
              => UNCHANGED <<storage, env, history>>
        /\ \A s \in Addresses, r \in rejected \cap PendingRequests :
              ( /\ Called("myCallback")
                /\ myCallback(s, r, KMSDecryption(r), KMSProof(r)) )
              => /\ lastCall'.err = NoError
                 /\ decryptionContexts'[r].processed
                 /\ completions'[r] = 1
      ]_vars

\* C15 witness: a request has just completed after an earlier callback for
\* it was rejected.
C15_Witness ==
    /\ lastCall.op = "myCallback"
    /\ lastCall.err = NoError
    /\ \E r \in rejected :
          /\ lastCall.event.args[1] = r
          /\ decryptionContexts[r].processed

\* the custom errors the contract declares (part_000:47-56)
Taxonomy ==
    {"NotOwner", "NotProvider", "PausedState", "CooldownActive", "BatchNotOpen",
     "BatchOpen", "InvalidBatch", "ReplayAttempt", "StateMismatch",
     "DecryptionFailed"}

\* C16: every call either succeeds or fails with one of the declared
\* errors, and a failed call leaves the whole storage unchanged (owner,
\* providers, paused, cooldownSeconds, both timestamp tables, currentBatchId,
\* batches, contexts); in particular submitData failing with BatchNotOpen
\* leaves lastSubmissionTime and requestBatchDecryption failing with
\* InvalidBatch leaves lastDecryptionRequestTime as they were.
C16_TaxonomyAtomic ==
    [][ (now' = now /\ lastCall'.err # NoError)
        => /\ lastCall'.err \in Taxonomy
           /\ UNCHANGED storage
      ]_vars

\* C17: batch ids are allocated from 1 upwards without gaps.  currentBatchId
\* is 0 after construction, a successful openBatch raises it by exactly one
\* and no other step changes it, so it always equals the number of
\* successful openBatch calls and the k-th of them creates batch k (the id
\* its BatchOpened event carries); the record created has that id,
\* open = true, dataCount = 0 and both accumulators a fresh encryption of
\* zero, and the other records are untouched; the records 1..currentBatchId
\* carry their own ids and no record beyond currentBatchId exists.
C17_SequentialBatchIds ==
    /\ currentBatchId = 0
    /\ [](/\ \A b \in 1..currentBatchId : batches[b].id = b
          /\ \A b \in BatchIds : b > currentBatchId => batches[b] = EmptyBatch)
    /\ [][ IF now' = now /\ lastCall'.op = "openBatch" /\ lastCall'.err = NoError
           THEN LET k == currentBatchId + 1 IN
                /\ currentBatchId' = k
                /\ lastCall'.event = Event("BatchOpened", <<k>>)
                /\ batches'[k].id = k
                /\ batches'[k].open
                /\ batches'[k].dataCount = 0
                /\ batches'[k].encryptedTotalVibration.op = "trivialEncrypt"
                /\ batches'[k].encryptedMaxTemperature.op = "trivialEncrypt"
                /\ Decrypt(batches'[k].encryptedTotalVibration) = U32(0)
                /\ Decrypt(batches'[k].encryptedMaxTemperature) = U32(0)
                /\ \A b \in BatchIds \ {k} : batches'[b] = batches[b]
           ELSE currentBatchId' = currentBatchId
         ]_vars

\* C17 witness: the second successful openBatch has just created batch 2,
\* batch 1 having received data.
C17_Witness ==
    /\ lastCall.op = "openBatch"
    /\ lastCall.err = NoError
    /\ lastCall.event.args = <<2>>
    /\ currentBatchId = 2
    /\ batches[2].dataCount = 0
    /\ batches[1].dataCount > 0

\* C18: a closed batch is frozen.  A successful closeBatch changes nothing
\* of the current batch but its open flag; from then on no step changes the
\* record of a closed batch (open stays false, dataCount and both
\* accumulator handles stay what they were at closing), whatever is done to
\* later batches; and no record is deleted: currentBatchId never decreases
\* and every allocated record keeps its id.
C18_ClosedBatchFrozen ==
    [][ /\ \A b \in ClosedBatches : batches'[b] = batches[b]
        /\ (now' = now /\ lastCall'.op = "closeBatch" /\ lastCall'.err = NoError)
              => /\ batches' = [batches EXCEPT ![currentBatchId].open = FALSE]
                 /\ currentBatchId \in ClosedBatches'
        /\ currentBatchId' >= currentBatchId
        /\ \A b \in 1..currentBatchId : batches'[b].id = b
      ]_vars

\* C18 witness: batch 1 was closed holding data, and batch 2 has since
\* been opened and has received data.
C18_Witness ==
    /\ currentBatchId = 2
    /\ ~batches[1].open
    /\ batches[1].dataCount >= 1
    /\ batches[2].dataCount >= 1
    /\ lastCall.op = "submitData"
    /\ lastCall.err = NoError

\* C19: StateMismatch cannot occur.  In every reachable state, for every
\* stored decryption context the digest of the current accumulator handles
\* of the batch it references equals the stored stateHash, and the handles
\* are the ones registered with the oracle; hence no myCallback call fails
\* with StateMismatch.
C19_NoStateMismatch ==
    /\ \A r \in IssuedRequests :
          /\ StateHashMatches(r)
          /\ BatchCiphertexts(decryptionContexts[r].batchId) = oracleRequests[r]
    /\ lastCall.err # "StateMismatch"
    /\ \A r \in RequestIds, d \in Deliveries :
          myCallbackError(r, d.cleartexts, d.proof) # "StateMismatch"

\* C19 witness: a callback has just passed the integrity check and
\* completed a request for a batch that holds data, after a later batch was
\* opened.
C19_Witness ==
    /\ lastCall.op = "myCallback"
    /\ lastCall.err = NoError
    /\ currentBatchId = 2
    /\ \E r \in IssuedRequests :
          /\ decryptionContexts[r].processed
          /\ decryptionContexts[r].batchId = 1
          /\ batches[1].dataCount >= 1

\* request ids under which a decryption context is stored
StoredContexts == {r \in RequestIds : decryptionContexts[r] # EmptyContext}

\* C20: in every reachable state each stored decryption context belongs to
\* a request the oracle issued and references a batch with
\* 1 <= batchId <= currentBatchId that is closed (so the referenced batch is
\* closed in every later state too); a context comes into being only by a
\* successful requestBatchDecryption, for the batch named in the call and
\* with processed = false; and a stored context is never deleted: it keeps
\* its batchId and stateHash, and processed never goes back to false.
C20_ContextsWellFormed ==
    /\ [](\A r \in StoredContexts :
            /\ r \in IssuedRequests
            /\ decryptionContexts[r].batchId \in ClosedBatches
            /\ <<r, decryptionContexts[r].batchId>> \in requestedLog)
    /\ [][ /\ \A r \in StoredContexts' \ StoredContexts :
                /\ lastCall'.op = "requestBatchDecryption"
                /\ lastCall'.err = NoError
                /\ lastCall'.event.args = <<r, decryptionContexts'[r].batchId>>
                /\ ~decryptionContexts'[r].processed
                /\ StoredContexts' = StoredContexts \cup {r}
           /\ \A r \in StoredContexts :
                /\ decryptionContexts'[r].batchId = decryptionContexts[r].batchId
                /\ decryptionContexts'[r].stateHash = decryptionContexts[r].stateHash
                /\ decryptionContexts[r].processed
                     => decryptionContexts'[r].processed
           /\ (now' = now /\ lastCall'.op = "requestBatchDecryption"
                 /\ lastCall'.err = NoError)
                => Cardinality(StoredContexts') = Cardinality(StoredContexts) + 1
         ]_vars

\* C20 witness: a context has just been stored for the closed batch 1 while
\* batch 2 is open, an earlier context for batch 1 being already processed.
C20_Witness ==
    /\ lastCall.op = "requestBatchDecryption"
    /\ lastCall.err = NoError
    /\ currentBatchId = 2
    /\ batches[2].open
    /\ \E r1, r2 \in StoredContexts :
          /\ decryptionContexts[r1].batchId = 1
          /\ decryptionContexts[r1].processed
          /\ decryptionContexts[r2].batchId = 1
          /\ ~decryptionContexts[r2].processed

\* C21: outstanding requests are independent.  A myCallback call for one
\* requestId, whether it succeeds or reverts, leaves the context of every
\* other requestId unchanged; and every pending request, whichever others
\* are pending or already completed and in whatever order they were made,
\* completes on a call carrying the oracle's delivery for it, exactly once.
C21_RequestsIndependent ==
    [][ \A s \in Addresses, r \in RequestIds, d \in Deliveries :
          ( /\ Called("myCallback")
            /\ myCallback(s, r, d.cleartexts, d.proof) )
          => /\ \A q \in RequestIds \ {r} :
                  /\ decryptionContexts'[q] = decryptionContexts[q]
                  /\ completions'[q] = completions[q]
             /\ ( /\ r \in PendingRequests
                  /\ d.cleartexts = KMSDecryption(r)
                  /\ d.proof = KMSProof(r) )
                  => /\ lastCall'.err = NoError
                     /\ decryptionContexts'[r].processed
                     /\ completions'[r] = 1
      ]_vars

\* C21 witness: of two requests the later one has just completed while
\* the earlier one is still pending.
C21_Witness ==
    /\ lastCall.op = "myCallback"
    /\ lastCall.err = NoError
    /\ lastCall.event.args[1] = 2
    /\ decryptionContexts[2].processed
    /\ 1 \in PendingRequests

\* C22: every DecryptionCompleted(requestId, batchId, ..) event follows a
\* DecryptionRequested event with the same requestId and batchId; and the
\* outcome of a myCallback call is the same for every caller: the step one
\* caller's call takes is the step any other caller's call with the same
\* requestId, cleartexts and proof takes.
C22_CompletionFollowsRequest ==
    [][ /\ (now' = now /\ lastCall'.event.name = "DecryptionCompleted")
              => <<lastCall'.event.args[1], lastCall'.event.args[2]>>
                    \in requestedLog
        /\ \A s \in Addresses, r \in RequestIds, d \in Deliveries :
              ( /\ Called("myCallback")
                /\ myCallback(s, r, d.cleartexts, d.proof) )
              => \A other \in Addresses :
                    myCallback(other, r, d.cleartexts, d.proof)
      ]_vars

\* C22 witness: a completion event has just been emitted for a request on
\* a batch holding data, while nobody is a provider any more.
C22_Witness ==
    /\ lastCall.event.name = "DecryptionCompleted"
    /\ <<lastCall.event.args[1], lastCall.event.args[2]>> \in requestedLog
    /\ batches[lastCall.event.args[2]].dataCount >= 1
    /\ \A a \in Addresses : ~isProvider[a]

\* C23: myCallback applies its checks in the order replay, batch range,
\* integrity digest, proof.  A call on a processed context reverts with
\* ReplayAttempt whatever the digest and the proof are; a call on a context
\* whose batchId is out of range reverts with InvalidBatch; a call on a
\* pending context whose digest mismatches reverts with StateMismatch
\* whatever the proof is; and only then does an invalid proof give
\* DecryptionFailed.
C23_CheckOrder ==
    [][ \A s \in Addresses, r \in RequestIds, d \in Deliveries :
          ( /\ Called("myCallback")
            /\ myCallback(s, r, d.cleartexts, d.proof) )
          => LET ctx == decryptionContexts[r]
                 inRange == ctx.batchId # 0 /\ ctx.batchId <= currentBatchId
             IN lastCall'.err =
                  IF ctx.processed THEN "ReplayAttempt"
                  ELSE IF ~inRange THEN "InvalidBatch"
                  ELSE IF ~StateHashMatches(r) THEN "StateMismatch"
                  ELSE IF ~checkSignatures(r, d.cleartexts, d.proof)
                       THEN "DecryptionFailed"
                  ELSE NoError
      ]_vars

\* C23 witness: a callback has just been rejected with ReplayAttempt on a
\* processed context whose batch no longer has the handles of the snapshot.
C23_Witness ==
    /\ lastCall.op = "myCallback"
    /\ lastCall.err = "ReplayAttempt"
    /\ \A r \in StoredContexts :
          decryptionContexts[r].processed /\ ~StateHashMatches(r)
    /\ StoredContexts # {}

\* C24: in every reachable state the dataCount of each batch is the number
\* of successful submitData calls made while it was the open batch; a
\* successful submitData raises the dataCount of the current batch by
\* exactly one, reports the new count in DataSubmitted and leaves every
\* other dataCount alone, and no other step changes any dataCount.
C24_DataCountCountsSubmissions ==
    /\ [](\A b \in BatchIds : batches[b].dataCount = Len(submitted[b]))
    /\ [][ IF now' = now /\ lastCall'.op = "submitData" /\ lastCall'.err = NoError
           THEN /\ batches[currentBatchId].open
                /\ batches'[currentBatchId].dataCount
                      = batches[currentBatchId].dataCount + 1
                /\ lastCall'.event.args[2] = currentBatchId
                /\ lastCall'.event.args[3] = batches'[currentBatchId].dataCount
                /\ \A b \in BatchIds \ {currentBatchId} :
                      batches'[b].dataCount = batches[b].dataCount
           ELSE \A b \in BatchIds : batches'[b].dataCount = batches[b].dataCount
         ]_vars

\* C24 witness: the second batch has just received its first submission,
\* the closed first batch holding one.
C24_Witness ==
    /\ lastCall.op = "submitData"
    /\ lastCall.err = NoError
    /\ lastCall.event.args[2] = 2
    /\ batches[2].dataCount = 1
    /\ batches[1].dataCount = 1
    /\ ~batches[1].open

\* C25: one cooldownSeconds gates both action classes.  A successful
\* setCooldownSeconds(c) stores c and leaves every recorded timestamp as it
\* was; and a submitData or requestBatchDecryption call that passes its
\* other checks succeeds exactly when now >= lastTime + cooldownSeconds for
\* the value stored at the time of the call and the caller's timestamp of
\* that class, so that a lowered value releases and a raised value blocks
\* the very next call.
C25_OneCooldownBothGates ==
    [][ /\ \A s \in Addresses, c \in CooldownInputs :
              ( /\ Called("setCooldownSeconds")
                /\ s = owner
                /\ setCooldownSeconds(s, c) )
              => /\ lastCall'.err = NoError
                 /\ cooldownSeconds' = c
                 /\ UNCHANGED <<lastSubmissionTime, lastDecryptionRequestTime>>
        /\ \A s \in Addresses, r \in Readings :
              ( /\ Called("submitData")
                /\ isProvider[s] /\ ~paused /\ batches[currentBatchId].open
                /\ submitData(s, InputHandle(r.vibration),
                              InputHandle(r.temperature)) )
              => (lastCall'.err = NoError
                    <=> CooldownElapsed(lastSubmissionTime[s]))
        /\ \A s \in Addresses, b \in ClosedBatches :
              ( /\ Called("requestBatchDecryption")
                /\ s = owner /\ ~paused
                /\ requestBatchDecryption(s, b) )
              => (lastCall'.err = NoError
                    <=> CooldownElapsed(lastDecryptionRequestTime[s]))
      ]_vars

\* C25 witness: with the cooldown lowered to zero, the one address that
\* ever submitted has made its second submission in the block of its
\* first.
C25_Witness ==
    /\ lastCall.op = "submitData"
    /\ lastCall.err = NoError
    /\ cooldownSeconds = U256(0)
    /\ now = U256(StartTime)
    /\ batches[currentBatchId].dataCount = 2
    /\ Cardinality({a \in Addresses : lastSubmissionTime[a] # U256(0)}) = 1

\* C26: the cooldown timestamps are per address and per action class.  A
\* successful submitData by A sets lastSubmissionTime[A] to now and changes
\* no other entry of either table; a successful requestBatchDecryption by A
\* sets lastDecryptionRequestTime[A] to now and changes no other entry of
\* either table; and no other step changes any timestamp.
C26_TimestampFrame ==
    [][ /\ \A s \in Addresses, r \in Readings :
              ( /\ Called("submitData")
                /\ submitData(s, InputHandle(r.vibration),
                              InputHandle(r.temperature))
                /\ lastCall'.err = NoError )
              => /\ lastSubmissionTime'[s] = now
                 /\ \A a \in Addresses \ {s} :
                       lastSubmissionTime'[a] = lastSubmissionTime[a]
                 /\ UNCHANGED lastDecryptionRequestTime
        /\ \A s \in Addresses, b \in BatchIds :
              ( /\ Called("requestBatchDecryption")
                /\ requestBatchDecryption(s, b)
                /\ lastCall'.err = NoError )
              => /\ lastDecryptionRequestTime'[s] = now
                 /\ \A a \in Addresses \ {s} :
                       lastDecryptionRequestTime'[a] = lastDecryptionRequestTime[a]
                 /\ UNCHANGED lastSubmissionTime
        /\ ~( /\ now' = now
              /\ lastCall'.op \in {"submitData", "requestBatchDecryption"}
              /\ lastCall'.err = NoError )
              => UNCHANGED <<lastSubmissionTime, lastDecryptionRequestTime>>
      ]_vars

\* C26 witness: the owner has just made a request and never submitted,
\* and the other address submitted earlier and never requested.
C26_Witness ==
    /\ lastCall.op = "requestBatchDecryption"
    /\ lastCall.err = NoError
    /\ lastDecryptionRequestTime[owner] = now
    /\ lastSubmissionTime[owner] = U256(0)
    /\ \E a \in Addresses \ {owner} :
          /\ lastSubmissionTime[a] # U256(0)
          /\ Lt(lastSubmissionTime[a], now)
          /\ lastDecryptionRequestTime[a] = U256(0)

\* the provider set
Providers == {a \in Addresses : isProvider[a]}

\* C27: addProvider and removeProvider are idempotent set operations.  A
\* successful addProvider(a) makes the provider set Providers \cup {a}, so
\* applied to a state where a is a provider (as after a first application)
\* it changes nothing; a successful removeProvider(a) makes it
\* Providers \ {a}, so a is not a provider after it, whether or not it was
\* added before, and applied again it changes nothing; neither changes
\* the membership of another address.
C27_ProviderSetIdempotent ==
    [][ \A s, a \in Addresses :
          /\ ( /\ Called("addProvider")
               /\ addProvider(s, a)
               /\ lastCall'.err = NoError )
             => /\ Providers' = Providers \cup {a}
                /\ a \in Providers => UNCHANGED isProvider
          /\ ( /\ Called("removeProvider")
               /\ removeProvider(s, a)
               /\ lastCall'.err = NoError )
             => /\ Providers' = Providers \ {a}
                /\ a \notin Providers => UNCHANGED isProvider
      ]_vars

\* C27 witness: four steps into a behaviour, addProvider has just succeeded
\* for an address that has submitted data (which takes its addition, an
\* open batch and the submission), the other address being no provider.
C27_Witness ==
    /\ steps = 4
    /\ lastCall.op = "addProvider"
    /\ lastCall.err = NoError
    /\ \E a \in Addresses :
          /\ lastCall.event.args = <<a>>
          /\ lastSubmissionTime[a] # U256(0)
          /\ Providers = {a}

C29_RecordFrame ==
    [][ /\ (batches' # batches \/ currentBatchId' # currentBatchId)
              => /\ now' = now
                 /\ lastCall'.op \in {"openBatch", "closeBatch", "submitData"}
                 /\ lastCall'.err = NoError
        /\ decryptionContexts' # decryptionContexts
              => /\ now' = now
                 /\ lastCall'.op \in {"requestBatchDecryption", "myCallback"}
                 /\ lastCall'.err = NoError
      ]_vars

\* C29 witness: the owner has just paused the contract while a batch with
\* data is open and a request on a closed batch is pending.
C29_Witness ==
    /\ lastCall.op = "setPaused"
    /\ lastCall.err = NoError
    /\ paused
    /\ batches[currentBatchId].open
    /\ batches[currentBatchId].dataCount >= 1
    /\ PendingRequests # {}

\* C30: a pending request stays completable.  In every reachable state,
\* paused or not, whoever the owner and the providers are, whatever the
\* cooldown is and whatever was done to later batches, a myCallback call
\* for a pending request carrying the oracle's delivery for it passes every
\* check; hence, the oracle's deliveries being fair, every pending request
\* is eventually processed.
C30_PendingStaysCompletable ==
    /\ [](\A r \in PendingRequests :
            myCallbackError(r, KMSDecryption(r), KMSProof(r)) = NoError)
    /\ \A r \in RequestIds :
          (r \in PendingRequests) ~> decryptionContexts[r].processed

\* C30 witness: a request has just completed in a paused contract whose
\* ownership changed and whose cooldown was changed after the request was
\* made.
C30_Witness ==
    /\ lastCall.op = "myCallback"
    /\ lastCall.err = NoError
    /\ paused
    /\ owner # Deployer
    /\ lastDecryptionRequestTime[Deployer] # U256(0)

\* the requests made for batch b, and those of them that completed
RequestsFor(b) == {r \in RequestIds : <<r, b>> \in requestedLog}
CompletedFor(b) == {r \in RequestsFor(b) : completions[r] >= 1}

\* C31: one closed batch can be requested any number of times.  A
\* requestBatchDecryption call by the owner for a closed batch, not paused
\* and with the cooldown elapsed, succeeds whether or not contexts for that
\* batch exist already; it stores a pending context under a requestId not
\* used before and leaves every earlier context, processed or not, as it
\* was; each request completes at most once and every pending one can
\* complete, so the completions for a batch are as many as the requests
\* for it at most.
C31_BatchRequestedRepeatedly ==
    /\ [](\A b \in BatchIds :
            /\ \A r \in RequestsFor(b) :
                  /\ decryptionContexts[r].batchId = b
                  /\ completions[r] <= 1
                  /\ r \in PendingRequests
                       => myCallbackError(r, KMSDecryption(r), KMSProof(r))
                             = NoError
            /\ Cardinality(CompletedFor(b)) <= Cardinality(RequestsFor(b)))
    /\ [][ \A s \in Addresses, b \in ClosedBatches :
             ( /\ Called("requestBatchDecryption")
               /\ s = owner /\ ~paused
               /\ CooldownElapsed(lastDecryptionRequestTime[s])
               /\ requestBatchDecryption(s, b) )
             => LET r == counterRequest IN
                /\ lastCall'.err = NoError
                /\ r \notin StoredContexts
                /\ decryptionContexts'[r].batchId = b
                /\ ~decryptionContexts'[r].processed
                /\ \A q \in RequestIds \ {r} :
                      decryptionContexts'[q] = decryptionContexts[q]
                /\ RequestsFor(b)' = RequestsFor(b) \cup {r}
         ]_vars

\* C31 witness: two requests were made for batch 1 and both have completed.
C31_Witness ==
    /\ Cardinality(RequestsFor(1)) = 2
    /\ Cardinality(CompletedFor(1)) = 2
    /\ \A r \in RequestsFor(1) : decryptionContexts[r].processed

\* C32: the sum lastTime + cooldownSeconds of the cooldown gate stays
\* within the 256-bit range for every recorded timestamp and every value
\* setCooldownSeconds has stored, and no call of submitData or
\* requestBatchDecryption ends in the arithmetic-overflow failure.
C32_NoCooldownOverflow ==
    /\ \A a \in Addresses :
          /\ ~AddOverflows(lastSubmissionTime[a], cooldownSeconds)
          /\ ~AddOverflows(lastDecryptionRequestTime[a], cooldownSeconds)
    /\ lastCall.err # "Panic"

\* batches that have been created
CreatedBatches == 1..currentBatchId

\* C33: the sum accumulator is a 32-bit value.  In every reachable state
\* the encryptedTotalVibration of each batch, open or closed, decrypts to
\* the sum of the vibration values submitted to it reduced modulo 2^32, and
\* therefore to the exact sum exactly when that sum is below 2^32; each
\* successful submitData adds the submitted value to the cleartext with
\* 32-bit wrap-around.
C33_SumIs32Bit ==
    /\ [](\A b \in CreatedBatches :
            LET exact == ExactVibrationSum(submitted[b])
                total == Decrypt(batches[b].encryptedTotalVibration)
            IN /\ Len(total) = Limbs32
               /\ total = Low32(exact)
               /\ (Widen(total) = exact) <=> (exact[1] = 0))
    /\ [][ \A s \in Addresses, r \in Readings :
             ( /\ Called("submitData")
               /\ submitData(s, InputHandle(r.vibration),
                             InputHandle(r.temperature))
               /\ lastCall'.err = NoError )
             => Decrypt(batches'[currentBatchId].encryptedTotalVibration)
                  = Low32(WrapAdd(
                      Widen(Decrypt(batches[currentBatchId].encryptedTotalVibration)),
                      Widen(r.vibration)))
         ]_vars

\* C33 witness: a submission has just made the sum of an open batch pass
\* 2^32, each submitted value being a 32-bit value: the accumulator
\* decrypts to less than the last value submitted.
C33_Witness ==
    /\ lastCall.op = "submitData"
    /\ lastCall.err = NoError
    /\ batches[currentBatchId].open
    /\ ExactVibrationSum(submitted[currentBatchId])[1] # 0
    /\ \A i \in 1..Len(submitted[currentBatchId]) :
          Len(submitted[currentBatchId][i].vibration) = Limbs32
    /\ Lt(Decrypt(batches[currentBatchId].encryptedTotalVibration),
          submitted[currentBatchId][Len(submitted[currentBatchId])].vibration)

====
